---- MODULE Spec2Model ----
(***************************************************************************)
(* State-machine model of the exported operations of dllmain.cpp:          *)
(* GetDeviceCount, GetDeviceName, LoadModel and PerformInference, together *)
(* with the module-wide variables they share.  The OpenVINO runtime and    *)
(* OpenCV are the environment: what they hold (devices, model files, the   *)
(* heap of infer requests and tensors) is modelled as far as the exported  *)
(* operations read or write it.                                            *)
(***************************************************************************)
EXTENDS Integers, Sequences, FiniteSets, TLC

(***************************************************************************)
(* Bounds and small input sets.                                            *)
(***************************************************************************)
\* Heap slots for infer requests: one for each module-wide handle that can
\* keep or name one (infer_request, input_tensor, input_data), and one for
\* the request being created.
NumSlots == 4

\* Device indices a caller tries.
MaxDevices == 2

\* dllmain.cpp:35
num_channels == 3

\* std::string::npos, as the value no position equals
npos == -1

\* Null handle / nullptr: default-constructed ov::CompiledModel,
\* ov::InferRequest, ov::Tensor, and the zero-initialised float* input_data
\* (static storage duration).
NullRef == 0

\* A heap slot holding no object: never created, or its last handle is gone.
Freed == [live |-> FALSE, file |-> "", w |-> 0, h |-> 0, c |-> 0, buf |-> << >>]

\* Device identifiers as strings of characters.
CPU == <<"C", "P", "U">>
GPU == <<"G", "P", "U">>
GNA == <<"G", "N", "A">>
GNA0 == <<"G", "N", "A", ".", "0">>
XGNA == <<"X", "G", "N", "A">>

GN == <<"G", "N">>

\* What core.get_available_devices() may answer.
DeviceSets ==
    { << >>, <<CPU>>, <<GNA>>, <<CPU, GNA, GPU>>, <<GNA0, GPU, XGNA, CPU>>,
      <<GN, GPU>>, <<GPU, CPU>>, <<XGNA, GN, GNA0>>, <<CPU, GPU, GNA0>> }

\* The device set of the machine the model is loaded on.
HostDevices == <<GNA, CPU>>

\* RGBA pixels a frame is built from (two differ in alpha only).
Palette ==
    { <<255, 0, 0, 255>>, <<0, 0, 0, 255>>, <<0, 0, 0, 0>> }

\* RGBA pixels of a camera frame: every channel of a pixel has its own
\* value, two pixels differ in alpha only, two are solid greys.
Colours ==
    { <<10, 20, 30, 40>>, <<10, 20, 30, 255>>, <<50, 60, 70, 80>>,
      <<200, 100, 0, 255>>, <<255, 255, 255, 0>>, <<0, 0, 0, 255>> }

\* The model files on disk: native input width and height, number of
\* classes, and whether the input shape is fixed (reshape to another
\* resolution is refused).  "missing.xml" does not parse; "m0.xml" is a
\* model whose output has shape [1, 0].
ModelFiles ==
    [ p \in {"missing.xml", "m0.xml", "m2.xml", "m3.xml"} |->
        CASE p = "missing.xml" -> [valid |-> FALSE, w |-> 0, h |-> 0, c |-> 0, fixed |-> FALSE]
          [] p = "m0.xml"      -> [valid |-> TRUE,  w |-> 1, h |-> 1, c |-> 0, fixed |-> FALSE]
          [] p = "m2.xml"      -> [valid |-> TRUE,  w |-> 1, h |-> 1, c |-> 2, fixed |-> FALSE]
          [] p = "m3.xml"      -> [valid |-> TRUE,  w |-> 1, h |-> 1, c |-> 3, fixed |-> TRUE] ]

\* The paths the host passes: its classifiers and a path that does not
\* parse.
Classifiers == {"missing.xml", "m2.xml", "m3.xml"}

\* The paths of a host that is handed the model without classes.
NoClassModels == {"missing.xml", "m0.xml"}

\* Resolutions {width, height} a caller asks for.
InputDims == { <<1, 1>>, <<2, 1>> }

\* Contents a freshly allocated input tensor may hold (numerators of x/255).
FillValues == {0, 255}

VARIABLES
    core_devices,       \* the runtime's current device set (environment)
    core_cache_dir,     \* ov::Core property set at line 79
    available_devices,  \* std::vector<std::string> available_devices
    compiled_model,     \* ov::CompiledModel compiled_model of line 15 (handle)
    infer_request,      \* ov::InferRequest infer_request (handle)
    input_tensor,       \* ov::Tensor input_tensor (handle)
    input_data,         \* float* input_data (tensor whose storage it points into)
    num_classes, input_w, input_h, nPixels,
    heap,               \* the live infer requests: compiled model and input buffer
    crashed,            \* the process died in undefined behaviour
    last,               \* the most recent exported call and its outcome
    hist                \* history: the class count of the last completed load

vars == << core_devices, core_cache_dir, available_devices, compiled_model,
           infer_request,
           input_tensor, input_data, num_classes, input_w, input_h, nPixels,
           heap, crashed, last, hist >>

loaded_state == << infer_request, input_tensor, input_data, num_classes,
                   input_w, input_h, nPixels >>

(***************************************************************************)
(* Pure helpers.                                                           *)
(***************************************************************************)
\* std::string::find(pat): the first position (0-based) at which pat occurs
\* in s, or npos.
Find_PrefixOnly(s, pat) ==
    IF Len(pat) <= Len(s) /\ SubSeq(s, 1, Len(pat)) = pat THEN 0 ELSE npos

Find(s, pat) ==
    LET hits == { i \in 0..(Len(s) - Len(pat)) :
                    SubSeq(s, i + 1, i + Len(pat)) = pat }
    IN  IF hits = {} THEN npos ELSE CHOOSE i \in hits : \A j \in hits : i <= j

\* The loop of GetDeviceCount over core.get_available_devices(), pushing
\* every device whose name has no "GNA" in it onto the list acc.
RECURSIVE PopulateDevices(_, _)
PopulateDevices(devices, acc) ==
    IF devices = << >> THEN acc
    ELSE LET device == Head(devices)
         IN  PopulateDevices(Tail(devices),
                             IF Find(device, GNA) = npos
                             THEN Append(acc, device) ELSE acc)

\* core.read_model(modelPath): throws unless the file is a valid model.
ParseOK(modelPath) == ModelFiles[modelPath].valid

\* The parsed model, at its native input shape.
ReadModel(modelPath) ==
    [file |-> modelPath, w |-> ModelFiles[modelPath].w, h |-> ModelFiles[modelPath].h]

\* model->reshape({1, 3, inputDims[1], inputDims[0]}) is refused by a model
\* of fixed input shape asked for another resolution.
ReshapeOK(m, inputDims) ==
    \/ ~ModelFiles[m.file].fixed
    \/ (inputDims[1] = m.w /\ inputDims[2] = m.h)

\* The model after line 87: shape[3] = inputDims[0], shape[2] = inputDims[1]
\* (inputDims is 0-based in the code, 1-based here); unchanged when refused.
Reshape_Swapped(m, inputDims) ==
    IF ReshapeOK(m, inputDims)
    THEN [m EXCEPT !.w = inputDims[2], !.h = inputDims[1]]
    ELSE m

Reshape(m, inputDims) ==
    IF ReshapeOK(m, inputDims)
    THEN [m EXCEPT !.w = inputDims[1], !.h = inputDims[2]]
    ELSE m

\* The x / 255.0f of line 139, as the rational <<numerator, denominator>>.
Div255(x) == <<x, 255>>

\* A frame of n RGBA pixels: bytes 0 .. 4n-1, pixel by pixel.
FrameOf(px, n) == [i \in 0..(4 * n - 1) |-> px[i \div 4][(i % 4) + 1]]
Frames(n) == { FrameOf(px, n) : px \in [0..(n - 1) -> Palette] }

\* The frames of the resolutions the models take, by pixel count.
MaxPixels == 2
FramesOf == [n \in 0..MaxPixels |-> Frames(n)]

ColourFramesOf ==
    [n \in 0..MaxPixels |-> { FrameOf(px, n) : px \in [0..(n - 1) -> Colours] }]

\* cv::cvtColor(texture, texture, cv::COLOR_RGBA2RGB): the 3n bytes left
\* once every fourth byte of the frame is dropped.
CvtColorRGBA2RGB_KeepAlpha(frame, n) ==
    [i \in 0..(3 * n - 1) |-> frame[(i \div 3) * 4 + (i % 3) + 1]]

CvtColorRGBA2RGB(frame, n) ==
    [i \in 0..(3 * n - 1) |-> frame[(i \div 3) * 4 + (i % 3)]]

\* The loops of lines 136-141, flattened to k = p * num_channels + ch: one
\* store through input_data per k.
RECURSIVE WritePixels_SkipLastPixel(_, _, _, _)
WritePixels_SkipLastPixel(buf, data, n, k) ==
    IF k >= (n - 1) * num_channels THEN buf
    ELSE LET p  == k \div num_channels
             ch == k % num_channels
         IN  WritePixels_SkipLastPixel(
                 [buf EXCEPT ![ch * n + p] = Div255(data[p * num_channels + ch])],
                 data, n, k + 1)

RECURSIVE WritePixels_Interleaved(_, _, _, _)
WritePixels_Interleaved(buf, data, n, k) ==
    IF k >= n * num_channels THEN buf
    ELSE LET p  == k \div num_channels
             ch == k % num_channels
         IN  WritePixels_Interleaved(
                 [buf EXCEPT ![p * num_channels + ch] = Div255(data[p * num_channels + ch])],
                 data, n, k + 1)

RECURSIVE WritePixels(_, _, _, _)
WritePixels(buf, data, n, k) ==
    IF k >= n * num_channels THEN buf
    ELSE LET p  == k \div num_channels
             ch == k % num_channels
         IN  WritePixels([buf EXCEPT ![ch * n + p] = Div255(data[p * num_channels + ch])],
                         data, n, k + 1)

\* The network behind an infer request: for a model of c classes, logit k
\* is the sum, weighted by i + 1, of the input cells i with i % c = c - 1 - k.
RECURSIVE SumCells(_, _, _, _)
SumCells(buf, c, k, i) ==
    IF i \notin DOMAIN buf THEN 0
    ELSE (IF i % c = c - 1 - k THEN (i + 1) * buf[i][1] ELSE 0)
         + SumCells(buf, c, k, i + 1)

Forward(c, buf) == [k \in 0..(c - 1) |-> SumCells(buf, c, k, 0)]

\* std::max_element(out, out + n): out itself when the range is empty, else
\* the first position no later position is greater than.
RECURSIVE MaxElementFrom_LastMax(_, _, _, _)
MaxElementFrom_LastMax(out, n, largest, first) ==
    IF first >= n THEN largest
    ELSE MaxElementFrom_LastMax(out, n,
                                IF out[largest] <= out[first] THEN first ELSE largest,
                                first + 1)

RECURSIVE MaxElementFrom(_, _, _, _)
MaxElementFrom(out, n, largest, first) ==
    IF first >= n THEN largest
    ELSE MaxElementFrom(out, n, IF out[largest] < out[first] THEN first ELSE largest,
                        first + 1)

MaxElement(out, n) == IF n <= 0 THEN 0 ELSE MaxElementFrom(out, n, 0, 1)

\* The slot the runtime places a new infer request in: one that no handle
\* or pointer of the module names.
FreshSlot ==
    CHOOSE t \in 1..NumSlots : t \notin {infer_request, input_tensor, input_data}

\* Heap slots no handle refers to are released.
Collect(h, ir, it) ==
    [t \in DOMAIN h |-> IF t = ir \/ t = it THEN h[t] ELSE Freed]

\* Addresses carry no meaning of their own: the slots are renumbered in the
\* order infer_request, input_tensor, input_data name them, so that states
\* equal up to a renaming of addresses are one state.
Rank(x, ir, it, ptr) ==
    IF x = NullRef THEN NullRef
    ELSE IF x = ir THEN 1
    ELSE IF x = it THEN (IF ir = NullRef THEN 1 ELSE 2)
    ELSE Cardinality({ir, it} \ {NullRef}) + 1

Renumber(h, ir, it, ptr) ==
    [t \in DOMAIN h |->
        IF \E x \in {ir, it, ptr} : x # NullRef /\ Rank(x, ir, it, ptr) = t
        THEN h[CHOOSE x \in {ir, it, ptr} : x # NullRef /\ Rank(x, ir, it, ptr) = t]
        ELSE Freed]

(***************************************************************************)
(* The record kept of the most recent exported call.                       *)
(***************************************************************************)
NoFrame == [i \in {} |-> 0]

\* prior: for a GetDeviceCount, the length of the device list it found.
Call(op, status, val) ==
    [op |-> op, status |-> status, val |-> val, fail |-> "none",
     reshaped |-> FALSE, frame |-> NoFrame, ub |-> FALSE, prior |-> 0]

(***************************************************************************)
(* Initial state: the module's globals as static initialisation leaves     *)
(* them (lines 11-35).                                                     *)
(***************************************************************************)
Init ==
    /\ core_devices = HostDevices
    /\ core_cache_dir = ""
    /\ available_devices = << >>
    /\ compiled_model = NullRef
    /\ infer_request = NullRef
    /\ input_tensor = NullRef
    /\ input_data = NullRef
    /\ num_classes = 0
    /\ input_w = 0
    /\ input_h = 0
    /\ nPixels = 0
    /\ heap = [t \in 1..NumSlots |-> Freed]
    /\ crashed = FALSE
    /\ last = Call("none", "none", 0)
    /\ hist = [loadedC |-> -1]

(***************************************************************************)
(* Environment: a device is plugged in or removed.                         *)
(***************************************************************************)
DevicesChange(d) ==
    /\ ~crashed
    /\ d # core_devices
    /\ core_devices' = d
    /\ UNCHANGED << core_cache_dir, available_devices, compiled_model,
                    infer_request, input_tensor, input_data, num_classes,
                    input_w, input_h, nPixels, heap, crashed, last, hist >>

(***************************************************************************)
(* GetDeviceCount (lines 41-55).                                           *)
(***************************************************************************)
GetDeviceCount_NoClear ==
    /\ ~crashed
    /\ available_devices' = PopulateDevices(core_devices, available_devices)
    /\ last' = [ Call("GetDeviceCount", "returned", Len(available_devices'))
                 EXCEPT !.prior = Len(available_devices) ]
    /\ UNCHANGED << core_devices, core_cache_dir, compiled_model,
                    infer_request, input_tensor, input_data, num_classes,
                    input_w, input_h, nPixels, heap, crashed, hist >>

GetDeviceCount ==
    /\ ~crashed
    \* line 44 empties the list, lines 47-52 fill it
    /\ available_devices' = PopulateDevices(core_devices, << >>)
    /\ last' = [ Call("GetDeviceCount", "returned", Len(available_devices'))
                 EXCEPT !.prior = Len(available_devices) ]
    /\ UNCHANGED << core_devices, core_cache_dir, compiled_model,
                    infer_request, input_tensor, input_data, num_classes,
                    input_w, input_h, nPixels, heap, crashed, hist >>

(***************************************************************************)
(* GetDeviceName (lines 62-64), for an index into the list; the pointer    *)
(* returned is recorded as the position it points at.                      *)
(***************************************************************************)
GetDeviceName(index) ==
    /\ ~crashed
    /\ index \in 0..(Len(available_devices) - 1)
    /\ last' = Call("GetDeviceName", "returned", index)
    /\ UNCHANGED << core_devices, core_cache_dir, available_devices,
                    compiled_model, infer_request, input_tensor, input_data,
                    num_classes, input_w, input_h, nPixels, heap, crashed,
                    hist >>

(***************************************************************************)
(* LoadModel (lines 74-116).  The calls into the runtime that may throw,   *)
(* in the order the function makes them; only read_model (line 82) and     *)
(* reshape (line 87) sit inside a try block.                               *)
(***************************************************************************)
LoadSteps ==
    << "set_property", "read_model", "compile_model", "output",
       "create_infer_request", "get_input_tensor", "data", "none" >>

\* Steps the environment may make fail, whatever the file holds.
LoadFaults == { LoadSteps[i] : i \in DOMAIN LoadSteps } \ {"read_model"}

StepIndex ==
    [ step \in { LoadSteps[i] : i \in DOMAIN LoadSteps } |->
        CHOOSE i \in DOMAIN LoadSteps : LoadSteps[i] = step ]

StepNo(step) == StepIndex[step]

\* The step at which this call stops: the injected fault, or the parse
\* failure of line 82 when it comes first.
StopAt(modelPath, at) ==
    IF at = "set_property" THEN StepNo("set_property")
    ELSE IF ~ParseOK(modelPath) THEN StepNo("read_model")
    ELSE StepNo(at)

\* Lines 77, 89: return_val once the reshape was tried.
ReturnVal_Swapped(parsed, inputDims) == IF ReshapeOK(parsed, inputDims) THEN 2 ELSE 0

ReturnVal(parsed, inputDims) == IF ReshapeOK(parsed, inputDims) THEN 0 ELSE 2

\* Lines 84, 115: the status a call that ends by a return statement gives.
LoadResult_NoEarlyCode(stop, return_val) == return_val

LoadResult(stop, return_val) ==
    IF stop = StepNo("read_model") THEN 1 ELSE return_val

\* Lines 92-101: the infer request the runtime creates for the compiled
\* model, its input tensor allocated with unspecified contents.  The request
\* keeps its compiled model alive; the two share a heap slot, so a handle to
\* the compiled model of a request has the request's address.
NewRequest(m, fill) ==
    [live |-> TRUE, file |-> m.file, w |-> m.w, h |-> m.h,
     c |-> ModelFiles[m.file].c,
     buf |-> [i \in 0..(num_channels * m.h * m.w - 1) |-> <<fill, 255>>]]

LoadModel(modelPath, index, inputDims, at, fill) ==
    LET stop   == StopAt(modelPath, at)
        passed(step) == stop > StepNo(step)
        \* lines 82-89: model, written here and read by this call alone
        parsed == ReadModel(modelPath)
        shaped == Reshape(parsed, inputDims)
        id     == FreshSlot
        req    == NewRequest(shaped, fill)
        \* line 101
        ir  == IF passed("create_infer_request") THEN id ELSE infer_request
        \* line 104
        it  == IF passed("get_input_tensor") THEN id ELSE input_tensor
        \* line 112
        ptr == IF passed("data") THEN id ELSE input_data
        h   == Collect(IF passed("create_infer_request")
                       THEN [heap EXCEPT ![id] = req] ELSE heap, ir, it)
    IN
    /\ ~crashed
    /\ index \in 0..(Len(available_devices) - 1)
    \* line 79
    /\ core_cache_dir' = IF passed("set_property") THEN "cache" ELSE core_cache_dir
    \* line 92: "auto compiled_model = ..." declares a variable local to the
    \* function; the module-wide compiled_model of line 15 is not assigned
    /\ compiled_model' = compiled_model
    \* lines 98-99
    /\ num_classes' = IF passed("output") THEN req.c ELSE num_classes
    /\ infer_request' = Rank(ir, ir, it, ptr)
    /\ input_tensor' = Rank(it, ir, it, ptr)
    \* lines 107-109
    /\ input_w' = IF passed("get_input_tensor") THEN req.w ELSE input_w
    /\ input_h' = IF passed("get_input_tensor") THEN req.h ELSE input_h
    /\ nPixels' = IF passed("get_input_tensor") THEN input_w' * input_h' ELSE nPixels
    /\ input_data' = Rank(ptr, ir, it, ptr)
    /\ heap' = Renumber(h, ir, it, ptr)
    /\ last' = [ Call("LoadModel",
                      IF stop = StepNo("read_model") \/ stop = StepNo("none")
                      THEN "returned" ELSE "exception",
                      IF stop = StepNo("read_model") THEN LoadResult(stop, 0)
                      ELSE IF stop = StepNo("none")
                           THEN LoadResult(stop, ReturnVal(parsed, inputDims))
                      ELSE 0)
                 EXCEPT !.fail = LoadSteps[stop],
                        !.reshaped = passed("read_model") /\ ReshapeOK(parsed, inputDims) ]
    /\ hist' = [ loadedC |-> IF stop = StepNo("none") THEN req.c ELSE hist.loadedC ]
    /\ UNCHANGED << core_devices, available_devices, crashed >>

(***************************************************************************)
(* PerformInference (lines 123-160).                                       *)
(***************************************************************************)
\* Runtime calls inside the try block that the environment may make throw.
InferFaults == {"none", "infer", "get_output_tensor"}

\* What a store or load outside any live object may do in a given build:
\* kill the process, raise a fault the catch (...) of line 154 sees, or go
\* unnoticed.
UBOutcomes == {"crash", "caught", "silent"}

\* The stores of line 139 land in a live tensor's storage.
StoreDefined(h, ptr, n) ==
    /\ ptr # NullRef
    /\ h[ptr].live
    /\ \A i \in 0..(num_channels * n - 1) : i \in DOMAIN h[ptr].buf

\* Lines 136-141 on the heap: the buffer input_data points into is written.
StorePixels_IntoRequest(h, ptr, data, n) ==
    [h EXCEPT ![infer_request].buf = WritePixels(h[infer_request].buf, data, n, 0)]

StorePixels(h, ptr, data, n) ==
    [h EXCEPT ![ptr].buf = WritePixels(h[ptr].buf, data, n, 0)]

\* Line 144 and the output tensor of line 147: the logits of the request.
Output(h, ir) == Forward(h[ir].c, h[ir].buf)

\* The body of PerformInference: the heap it leaves, how it ends, the value
\* it returns, the step that threw, and whether it ran into undefined
\* behaviour.
Inference(h, frame, at, ubo, oob) ==
    LET n    == input_h * input_w
        done(status, val, hp, fail, ub) ==
            [status |-> status, val |-> val, heap |-> hp, fail |-> fail, ub |-> ub]
    IN
    \* lines 131-133: cvtColor refuses an empty image
    IF n = 0 THEN done("returned", -2, h, "cvtColor", FALSE)
    ELSE
    LET data   == CvtColorRGBA2RGB(frame, n)
        stored == StoreDefined(h, input_data, nPixels)
        h1     == IF stored THEN StorePixels(h, input_data, data, nPixels) ELSE h
    IN
    IF ~stored /\ ubo = "crash" THEN done("crash", 0, h, "none", TRUE)
    ELSE IF ~stored /\ ubo = "caught" THEN done("returned", -2, h, "store", TRUE)
    \* line 144
    ELSE IF infer_request = NullRef \/ at = "infer"
         THEN done("returned", -2, h1, "infer", ~stored)
    \* lines 147-149
    ELSE IF at = "get_output_tensor"
         THEN done("returned", -2, h1, "get_output_tensor", ~stored)
    \* line 152
    ELSE LET out == Output(h1, infer_request) IN
         IF \A k \in 0..(num_classes - 1) : k \in DOMAIN out
         THEN done("returned", MaxElement(out, num_classes), h1, "none", ~stored)
         ELSE IF ubo = "crash" THEN done("crash", 0, h1, "none", TRUE)
         ELSE IF ubo = "caught" THEN done("returned", -2, h1, "load", TRUE)
         ELSE done("returned", oob, h1, "none", TRUE)

\* Whether a call in this state runs into undefined behaviour, and what
\* it may then do: the outcome, and the index an out-of-range read yields.
MayMisbehave ==
    \/ ~StoreDefined(heap, input_data, nPixels)
    \/ infer_request # NullRef /\ num_classes > heap[infer_request].c

Misbehaviours ==
    IF MayMisbehave
    THEN { <<o, 0>> : o \in UBOutcomes }
         \cup { <<"silent", k>> :
                  k \in IF infer_request # NullRef /\ num_classes > heap[infer_request].c
                        THEN 0..(num_classes - 1) ELSE {0} }
    ELSE {<<"silent", 0>>}

PerformInference(frame, at, ubo, oob) ==
    LET r == Inference(heap, frame, at, ubo, oob) IN
    /\ ~crashed
    /\ heap' = r.heap
    /\ crashed' = (r.status = "crash")
    /\ last' = [ Call("PerformInference", r.status, r.val)
                 EXCEPT !.fail = r.fail, !.frame = frame, !.ub = r.ub ]
    /\ UNCHANGED << core_devices, core_cache_dir, available_devices,
                    compiled_model, infer_request, input_tensor, input_data,
                    num_classes, input_w, input_h, nPixels, hist >>

\* The values of an input worth trying: all of them when the call gets as
\* far as reading it, one when it stops before.
InputsRead(modelPath, at, values) ==
    IF StopAt(modelPath, at) > StepNo("read_model")
    THEN values ELSE { CHOOSE v \in values : TRUE }

(***************************************************************************)
(* The exported surface, called by one host thread in any order, on a      *)
(* machine whose device set stays as it is.                                *)
(***************************************************************************)
Next ==
    \/ GetDeviceCount
    \/ \E index \in 0..(MaxDevices - 1) : GetDeviceName(index)
    \/ \E index \in 0..(MaxDevices - 1), modelPath \in Classifiers,
          at \in LoadFaults :
            \E inputDims \in InputsRead(modelPath, at, InputDims),
               fill \in InputsRead(modelPath, at, FillValues) :
                LoadModel(modelPath, index, inputDims, at, fill)
    \/ \E frame \in FramesOf[input_h * input_w], at \in InferFaults,
          m \in Misbehaviours :
            PerformInference(frame, at, m[1], m[2])

Spec == Init /\ [][Next]_vars

(***************************************************************************)
(* The same surface, called by a host whose model has no classes.          *)
(***************************************************************************)
NextNoClasses ==
    \/ GetDeviceCount
    \/ \E index \in 0..(MaxDevices - 1) : GetDeviceName(index)
    \/ \E index \in 0..(MaxDevices - 1), modelPath \in NoClassModels,
          at \in LoadFaults :
            \E inputDims \in InputsRead(modelPath, at, InputDims),
               fill \in InputsRead(modelPath, at, FillValues) :
                LoadModel(modelPath, index, inputDims, at, fill)
    \/ \E frame \in FramesOf[input_h * input_w], at \in InferFaults,
          m \in Misbehaviours :
            PerformInference(frame, at, m[1], m[2])

SpecNoClasses == Init /\ [][NextNoClasses]_vars

(***************************************************************************)
(* The preprocessing of camera frames: loads that run to completion, and   *)
(* inferences on frames of many colours.                                   *)
(***************************************************************************)
NextPixels ==
    \/ GetDeviceCount
    \/ \E index \in 0..(MaxDevices - 1) : GetDeviceName(index)
    \/ \E index \in 0..(MaxDevices - 1), modelPath \in Classifiers,
          inputDims \in InputDims, fill \in FillValues :
            LoadModel(modelPath, index, inputDims, "none", fill)
    \/ \E frame \in ColourFramesOf[input_h * input_w], at \in InferFaults :
            PerformInference(frame, at, "silent", 0)

SpecPixels == Init /\ [][NextPixels]_vars

(***************************************************************************)
(* The device registry alone, on a machine whose devices come and go.      *)
(***************************************************************************)
NextDevices ==
    \/ \E d \in DeviceSets : DevicesChange(d)
    \/ GetDeviceCount
    \/ \E index \in 0..(MaxDevices - 1) : GetDeviceName(index)

SpecDevices == Init /\ [][NextDevices]_vars

(***************************************************************************)
(* Properties.                                                             *)
(***************************************************************************)
\* The cached pointer, dimensions and class count are those of the compiled
\* model the installed infer request was created from.
ModelLoaded ==
    /\ infer_request # NullRef
    /\ input_tensor = infer_request
    /\ input_data = infer_request
    /\ num_classes = heap[infer_request].c
    /\ input_w = heap[infer_request].w
    /\ input_h = heap[infer_request].h
    /\ nPixels = input_w * input_h

\* C1: a LoadModel whose parse of the model file fails returns 1 and leaves
\* the infer request, the input tensor, the cached input pointer, the cached
\* H, W, H*W and C, and the tensor contents exactly as they were.
C1_ParseFailureKeepsState ==
    [][ (last'.op = "LoadModel" /\ last'.fail = "read_model")
        => /\ last'.status = "returned"
           /\ last'.val = 1
           /\ UNCHANGED << loaded_state, heap >> ]_vars

\* A buffer holding what only a frame can have put there.
Written(buf) == \E i, j \in DOMAIN buf : buf[i] # buf[j]

\* C1 witness: a parse failure reported on top of a loaded model whose input
\* tensor an inference has already written.
C1_Witness ==
    /\ last.op = "LoadModel" /\ last.fail = "read_model" /\ last.val = 1
    /\ ModelLoaded
    /\ Written(heap[input_data].buf)

\* C2: a LoadModel that parses and runs to completion returns 0 exactly when
\* the reshape succeeded and 2 exactly when it was refused; a refused
\* reshape is never the step a call stops at and never gives 1; a parse
\* failure never gives 2.
C2_StatusTellsReshape ==
    /\ (last.op = "LoadModel" /\ last.fail = "none")
         => /\ last.status = "returned"
            /\ (last.val = 0) <=> last.reshaped
            /\ (last.val = 2) <=> ~last.reshaped
    /\ (last.op = "LoadModel" /\ last.status = "returned" /\ last.val = 1)
         => last.fail = "read_model"
    /\ (last.op = "LoadModel" /\ last.fail = "read_model")
         => (last.status = "returned" /\ last.val # 2)
    /\ (last.op = "LoadModel" /\ last.status = "exception")
         => last.fail \in LoadFaults \ {"none"}

\* C2 witness: a load that completed with status 2 at the model's own shape.
C2_Witness ==
    /\ last.op = "LoadModel" /\ last.fail = "none" /\ last.val = 2
    /\ ~last.reshaped
    /\ ModelLoaded

\* C3: once a LoadModel has returned 0 or 2 for a model of C >= 1 classes,
\* every PerformInference that returns gives a value in [0, C) or -2,
\* whatever calls (failing loads included) came in between.
C3_ClassRange ==
    (last.op = "PerformInference" /\ last.status = "returned" /\ hist.loadedC >= 1)
        => (last.val = -2 \/ last.val \in 0..(hist.loadedC - 1))

\* C4: LoadModel and PerformInference end by returning an integer code: no
\* exception leaves them and the process survives them.
C4_NoExceptionEscapes ==
    last.op \in {"LoadModel", "PerformInference"} => last.status = "returned"

\* C5: a PerformInference in which a step fails returns -2, and so does any
\* PerformInference made while no LoadModel has returned 0 or 2 yet.
C5_FailureGivesMinusTwo ==
    /\ (last.op = "PerformInference" /\ last.fail # "none")
         => (last.status = "returned" /\ last.val = -2)
    /\ (last.op = "PerformInference" /\ hist.loadedC = -1)
         => (last.status = "returned" /\ last.val = -2)

\* C6: a PerformInference, succeeding or failing, leaves the device list,
\* the infer request, the input tensor handle, the cached input pointer and
\* the cached H, W, H*W and C as they were; on the heap it changes nothing
\* but the contents of the buffer the cached input pointer points into.
C6_InferenceWritesBufferOnly ==
    [][ last'.op = "PerformInference"
        => /\ UNCHANGED << available_devices, infer_request, input_tensor,
                           input_data, input_h, input_w, nPixels, num_classes >>
           /\ \A t \in DOMAIN heap :
                /\ t # input_data => heap'[t] = heap[t]
                /\ heap'[t] = [heap[t] EXCEPT !.buf = heap'[t].buf] ]_vars

\* C6 witness: an inference failed after it had written the input tensor of
\* a loaded model that has a second tensor alive beside it.
C6_Witness ==
    /\ last.op = "PerformInference" /\ last.val = -2 /\ last.fail = "infer"
    /\ infer_request # NullRef /\ input_data # NullRef
    /\ input_data # infer_request
    /\ heap[input_data].live
    /\ Written(heap[input_data].buf)

\* C7: an inference whose forward pass succeeded on C >= 1 cached classes
\* returns the index i in [0, C) with output[i] >= output[j] for every j in
\* [0, C) and output[i] > output[j] for every j < i.
C7_LowestMaximalIndex ==
    ( /\ last.op = "PerformInference" /\ last.status = "returned"
      /\ last.fail = "none" /\ ~last.ub
      /\ num_classes >= 1 )
    => LET out == Output(heap, infer_request)
           i   == last.val
       IN  /\ i \in 0..(num_classes - 1)
           /\ \A j \in 0..(num_classes - 1) :
                /\ out[i] >= out[j]
                /\ j < i => out[i] > out[j]

\* C7 witness: all logits of a three-class model are equal and the call
\* returned 0.
C7_Witness ==
    /\ last.op = "PerformInference" /\ last.status = "returned" /\ last.fail = "none"
    /\ ModelLoaded /\ num_classes = 3
    /\ last.val = 0
    /\ \A j \in 0..2 : Output(heap, infer_request)[j] = Output(heap, infer_request)[0]

\* C7 second case: a maximum that is not at index 0 is returned as such.
C7_WitnessLater ==
    /\ last.op = "PerformInference" /\ last.status = "returned" /\ last.fail = "none"
    /\ ModelLoaded /\ last.val = 2

\* A device name has "GNA" somewhere in it.
ContainsGNA(device) ==
    \E i \in 1..Len(device) :
        i + 2 <= Len(device) /\ <<device[i], device[i + 1], device[i + 2]>> = GNA

KeepsDevice(device) == ~ContainsGNA(device)

\* C8: no entry of the device list ever contains "GNA", and a GetDeviceCount
\* that returns n leaves a list of exactly n entries: the runtime's devices
\* without that substring, in the runtime's order.
C8_DeviceListFiltered ==
    /\ [](\A i \in 1..Len(available_devices) : ~ContainsGNA(available_devices[i]))
    /\ [][ GetDeviceCount
           => /\ last'.val = Len(available_devices')
              /\ available_devices' = SelectSeq(core_devices, KeepsDevice) ]_vars

\* C8 witness: an enumeration of four devices, two of them with "GNA" in
\* their names (one not at the start), returned 2.
C8_Witness ==
    /\ core_devices = <<GNA0, GPU, XGNA, CPU>>
    /\ last.op = "GetDeviceCount" /\ last.val = 2
    /\ available_devices = <<GPU, CPU>>

\* The class a call on the frame of the last call returns when the input
\* tensor held v in every cell before it.
ClassOnFilledTensor(v) ==
    LET filled == [heap EXCEPT ![infer_request].buf =
                      [i \in DOMAIN heap[infer_request].buf |-> <<v, 255>>]]
    IN  Inference(filled, last.frame, "none", "silent", 0).val

\* C9: with a model loaded and no failure in the call, the class index
\* PerformInference returns is a function of the frame alone: it is the one
\* the frame gives whatever the input tensor held before the call, so two
\* calls on identical frames agree whatever was submitted in between.
C9_ResultDependsOnFrameOnly ==
    ( /\ last.op = "PerformInference" /\ last.status = "returned"
      /\ last.fail = "none"
      /\ ModelLoaded )
    => \A v \in FillValues : last.val = ClassOnFilledTensor(v)

\* C9 witness: on a loaded model whose blank tensor classifies as 0, a frame
\* was classified as 1.
C9_Witness ==
    /\ last.op = "PerformInference" /\ last.status = "returned" /\ last.fail = "none"
    /\ ModelLoaded
    /\ last.val = 1
    /\ nPixels = 2

\* C10: whenever an infer request is installed, the cached class count is
\* that of the compiled model the request was created from, and the input
\* tensor, the cached input pointer and the cached H, W, H*W, once set, are
\* those of that same compiled model: nothing cached comes from another
\* load than the installed request does.
C10_OneCompiledModel ==
    infer_request # NullRef =>
        /\ num_classes = heap[infer_request].c
        /\ input_tensor \in {NullRef, infer_request}
        /\ input_data \in {NullRef, infer_request}
        /\ input_tensor = infer_request =>
             /\ input_w = heap[infer_request].w
             /\ input_h = heap[infer_request].h
             /\ nPixels = input_w * input_h

\* C11: after a LoadModel that returned 0 or 2, the module-wide compiled
\* model is set and is the one the installed infer request was created from,
\* and the infer request, the input tensor, the cached input pointer and the
\* cached H, W, H*W and C are all those of the newly loaded model.
C11_LoadInstallsEveryField ==
    (last.op = "LoadModel" /\ last.status = "returned" /\ last.val \in {0, 2})
        => /\ ModelLoaded
           /\ compiled_model # NullRef
           /\ compiled_model = infer_request

\* C12: with a model of C = 0 classes loaded, a PerformInference in which
\* no step fails returns -1, the value class_idx is initialised with.
C12_NoClassesGivesSentinel ==
    ( /\ last.op = "PerformInference" /\ last.status = "returned"
      /\ last.fail = "none" /\ ~last.ub
      /\ ModelLoaded /\ num_classes = 0 )
    => last.val = -1

\* C13: a LoadModel that runs to completion caches the dimensions of the
\* compiled model's input tensor: with status 0 the cached W and H are the
\* requested inputDims[0] and inputDims[1]; with status 2 they are the
\* model's native width and height and not the requested ones; in both cases
\* the cached pixel count is W * H.  A PerformInference on a frame of the
\* cached size, with no failing step, then returns a class index.
C13_CachedDimsAreTensorDims ==
    /\ [][ (last'.op = "LoadModel" /\ last'.fail = "none")
           => \A modelPath \in Classifiers, index \in 0..(MaxDevices - 1),
                 inputDims \in InputDims, fill \in FillValues :
                LoadModel(modelPath, index, inputDims, "none", fill)
                => /\ last'.val \in {0, 2}
                   /\ last'.val = 0 => /\ input_w' = inputDims[1]
                                       /\ input_h' = inputDims[2]
                   /\ last'.val = 2 => /\ input_w' = ModelFiles[modelPath].w
                                       /\ input_h' = ModelFiles[modelPath].h
                                       /\ <<input_w', input_h'>> # inputDims
                   /\ input_w' = heap'[input_tensor'].w
                   /\ input_h' = heap'[input_tensor'].h
                   /\ nPixels' = input_w' * input_h' ]_vars
    /\ [][ ( /\ ModelLoaded /\ num_classes >= 1
             /\ last'.op = "PerformInference" /\ last'.fail = "none" )
           => /\ last'.status = "returned"
              /\ DOMAIN last'.frame = 0..(4 * input_w * input_h - 1)
              /\ last'.val \in 0..(num_classes - 1) ]_vars

\* C13 witness: a fixed-shape model asked for another resolution was loaded
\* with status 2 and the cached dimensions are its native ones.
C13_Witness ==
    /\ last.op = "LoadModel" /\ last.status = "returned" /\ last.val = 2
    /\ infer_request # NullRef /\ ModelFiles[heap[infer_request].file].fixed
    /\ input_w = ModelFiles[heap[infer_request].file].w
    /\ input_h = ModelFiles[heap[infer_request].file].h
    /\ nPixels = input_w * input_h

\* C13 second case: a load at width 2 and height 1 returned 0 and cached
\* exactly that.
C13_WitnessReshaped ==
    /\ last.op = "LoadModel" /\ last.status = "returned" /\ last.val = 0
    /\ ModelLoaded
    /\ input_w = 2 /\ input_h = 1 /\ nPixels = 2

\* C14: a PerformInference on a loaded model of H*W pixels leaves in input
\* cell c*H*W + p, for every pixel p in [0, H*W) and channel c in {0, 1, 2},
\* frame byte p*4 + c divided by 255 (so no alpha byte p*4 + 3); the cells
\* are exactly 0 .. 3*H*W - 1, and the 3*H*W stores of the loops land on
\* 3*H*W different cells of that range, one store per cell.
C14_PlanarNormalisedCopy ==
    (last.op = "PerformInference" /\ last.status = "returned" /\ ModelLoaded)
    => LET n     == input_h * input_w
           buf   == heap[input_data].buf
           cells == 0..(num_channels * n - 1)
           \* store k of the loops writes the tag k on a blank tensor
           tags  == WritePixels([i \in cells |-> <<-1, 255>>],
                                [k \in cells |-> k], n, 0)
       IN  /\ DOMAIN buf = cells
           /\ \A p \in 0..(n - 1), c \in 0..(num_channels - 1) :
                buf[c * n + p] = <<last.frame[p * 4 + c], 255>>
           /\ DOMAIN tags = cells
           /\ { tags[i][1] : i \in cells } = cells

\* C14 witness: a frame of two pixels, all six colour bytes different, was
\* written to the tensor of a loaded model.
C14_Witness ==
    /\ last.op = "PerformInference" /\ last.status = "returned" /\ last.fail = "none"
    /\ ModelLoaded /\ nPixels = 2
    /\ Cardinality({ last.frame[i] : i \in {0, 1, 2, 4, 5, 6} }) = 6
    /\ heap[input_data].buf[1] = <<last.frame[4], 255>>

\* Two frames with the same R, G and B bytes.
SameRGB(f, g) ==
    /\ DOMAIN f = DOMAIN g
    /\ \A i \in DOMAIN f : i % 4 # 3 => f[i] = g[i]

\* C15: with a model loaded, a PerformInference on a frame leaves the input
\* tensor (and the rest of the heap) and returns the value that the same
\* call on any frame with the same R, G and B bytes and other alpha bytes
\* leaves and returns.
C15_AlphaIgnored ==
    [][ (ModelLoaded /\ last'.op = "PerformInference")
        => \A g \in ColourFramesOf[input_h * input_w] :
             SameRGB(g, last'.frame)
             => LET r == Inference(heap, g, last'.fail, "silent", 0)
                IN  /\ r.heap = heap'
                    /\ r.status = last'.status
                    /\ r.val = last'.val ]_vars

\* C15 witness: a frame was classified that has a twin of the same colours
\* and another alpha byte.
C15_Witness ==
    /\ last.op = "PerformInference" /\ last.status = "returned" /\ last.fail = "none"
    /\ ModelLoaded /\ last.val >= 0
    /\ \E g \in ColourFramesOf[nPixels] : g # last.frame /\ SameRGB(g, last.frame)
    /\ Written(heap[input_data].buf)

\* C16: a GetDeviceCount returns the length of the list it leaves, and that
\* list is the filtered device set of this call alone, whatever the list
\* held before; called on a list that is already the enumeration of the
\* current device set, it leaves the same list and returns the same count
\* as the call before it.
C16_DeviceListRebuilt ==
    [][ GetDeviceCount
        => /\ last'.val = Len(available_devices')
           /\ available_devices' = SelectSeq(core_devices, KeepsDevice)
           /\ Len(available_devices') <= Len(core_devices)
           /\ available_devices = SelectSeq(core_devices, KeepsDevice)
                => /\ available_devices' = available_devices
                   /\ last'.val = last'.prior
                   /\ last.op = "GetDeviceCount" => last'.val = last.val ]_vars

\* C16 witness: an enumeration that found a list of two entries left a list
\* of one.
C16_Witness ==
    /\ last.op = "GetDeviceCount" /\ last.prior = 2 /\ last.val = 1
    /\ available_devices = <<CPU>>

\* C16 second case: an enumeration that found the two entries of the current
\* device set left them as they were.
C16_WitnessRepeat ==
    /\ last.op = "GetDeviceCount" /\ last.prior = 2 /\ last.val = 2
    /\ core_devices = <<GPU, CPU>> /\ available_devices = <<GPU, CPU>>

====
